---- MODULE Spec2Model ----
(***************************************************************************)
(* Model of PythonChessController/src/hardware: the cached sensor values   *)
(* of devices.py (CachedValue, DigitalInput, DigitalInputMatrixSet,        *)
(* MoveSensor) and the command codec of serial_protocol.py.                *)
(*                                                                         *)
(* Python values: None is the record None, any other value x is Just(x).   *)
(* A str is a sequence of one-character strings.                           *)
(***************************************************************************)
EXTENDS Integers, Sequences, FiniteSets, TLC

\* ------------------------------------------------------------------ bounds
\* number of squares of the board whose occupancy the environment may change
NumActive == 3
\* _fetch_value calls counted per cycle (the counter saturates here)
MaxCount == 2
\* integer ports tried are -1..MaxPort
MaxPort == 14
\* integer values and speeds tried go up to MaxInt
MaxInt == 257

\* ------------------------------------------------------- python primitives
None == [isNone |-> TRUE]
Just(x) == [isNone |-> FALSE, v |-> x]

\* the board is 8 x 8 (range(8) in MoveSensor.__init__)
Size == 8

\* chr(k + ord('a'))
Letters == <<"a", "b", "c", "d", "e", "f", "g", "h", "i", "j", "k", "l", "m",
             "n", "o", "p", "q", "r", "s", "t", "u", "v", "w", "x", "y", "z">>

DecDigits == <<"0", "1", "2", "3", "4", "5", "6", "7", "8", "9">>

\* str(n) for a natural number n
RECURSIVE str(_)
str(n) == IF n < 10 THEN <<DecDigits[n + 1]>>
          ELSE str(n \div 10) \o <<DecDigits[(n % 10) + 1]>>

\* s.split(sep): the pieces of s between the separators (always >= 1 piece)
split(s, sep) ==
  LET cuts == {0} \cup {i \in 1..Len(s) : s[i] = sep} \cup {Len(s) + 1}
      cut(k) == CHOOSE i \in cuts : Cardinality({j \in cuts : j < i}) = k
  IN  [k \in 1..(Cardinality(cuts) - 1) |->
        SubSeq(s, cut(k - 1) + 1, cut(k) - 1)]

\* ------------------------------------------------------------- environment
\* MoveSensor._start as a coordinate set: every row i has columns 0,1,6,7 set
StartLayout == {<<i, j>> : i \in 0..(Size - 1), j \in {0, 1, 6, 7}}

\* squares the environment toggles: e2, e4, d5, d7, a1 (row index = file)
ActiveSeq == << <<4, 1>>, <<4, 3>>, <<3, 4>>, <<3, 6>>, <<0, 0>> >>
Active == {ActiveSeq[k] : k \in 1..NumActive}

\* occupancies the physical board can show
Occupancies == {(StartLayout \ Active) \cup s : s \in SUBSET Active}

\* shapes of a telemetry line: well formed, or the last row missing
Shapes == {"ok", "rows7"}

RowText(occ, i, n) == [j \in 1..n |-> IF <<i, j - 1>> \in occ THEN "1" ELSE "0"]

RECURSIVE RowsText(_, _, _, _)
RowsText(occ, i, nrows, lastlen) ==
  IF i >= nrows THEN <<"\n">>
  ELSE RowText(occ, i, IF i = nrows - 1 THEN lastlen ELSE Size) \o <<";">>
       \o RowsText(occ, i + 1, nrows, lastlen)

\* the line the firmware answers to a read of the matrix port
Encode(occ, shape) ==
  RowsText(occ, 0, IF shape = "rows7" THEN Size - 1 ELSE Size, Size)

\* the lines the link can deliver, numbered
Lines == {Encode(occ, sh) : occ \in Occupancies, sh \in Shapes}

\* a crowded board: four squares change, so that two squares can vanish
\* together while two lifts are pending
Crowd == {ActiveSeq[k] : k \in 1..4}
CrowdOccupancies == {(StartLayout \ Crowd) \cup s : s \in SUBSET Crowd}
CrowdLines == {Encode(occ, "ok") : occ \in CrowdOccupancies}

RECURSIVE Enumerate(_)
Enumerate(S) == IF S = {} THEN <<>>
                ELSE LET x == CHOOSE y \in S : TRUE
                     IN  <<x>> \o Enumerate(S \ {x})

LineOf == Enumerate(Lines \cup CrowdLines)
Telemetry == 1..Len(LineOf)

\* exactly 8 rows of exactly 8 characters before the final separator
WellFormed(val) ==
  LET rows == SubSeq(split(val, ";"), 1, Len(split(val, ";")) - 1)
  IN  Len(rows) = Size /\ \A i \in 1..Len(rows) : Len(rows[i]) = Size

\* ------------------------------------------------------------ devices.py
\* MoveSensor(serial, port) passes reversed=False
reversed == FALSE

\* DigitalInputMatrix._fetch_value on the line val
DigitalInputMatrix_fetch_value(val) ==
  LET rows == SubSeq(split(val, ";"), 1, Len(split(val, ";")) - 1)
  IN  [i \in 1..Len(rows) |->
        [j \in 1..Len(rows[i]) |-> (rows[i][j] = "1") # reversed]]

\* DigitalInputMatrixSet._fetch_value on the line val
DigitalInputMatrixSet_fetch_value(val) ==
  LET grid == DigitalInputMatrix_fetch_value(val)
  IN  UNION {{<<i - 1, j - 1>> : j \in {k \in 1..Len(grid[i]) : grid[i][k]}}
             : i \in 1..Len(grid)}

Decoded == [k \in Telemetry |-> DigitalInputMatrixSet_fetch_value(LineOf[k])]
Malformed == [k \in Telemetry |-> ~WellFormed(LineOf[k])]

\* the numbers of the lines each kind of link delivers
NoisyLines == {k \in Telemetry : LineOf[k] \in Lines}
CleanLines == {k \in NoisyLines : ~Malformed[k]}
CrowdedLines == {k \in Telemetry : LineOf[k] \in CrowdLines}

\* MoveSensor._index_to_move
index_to_move(indexes) == <<Letters[indexes[1] + 1]>> \o str(indexes[2] + 1)

Min(a, b) == IF a < b THEN a ELSE b

\* ------------------------------------------------------------------ state
VARIABLES
  ms_value,           \* MoveSensor._value
  ms_last_value,      \* MoveSensor.last_value
  pick_up,            \* MoveSensor.pick_up
  prev_pick_up,       \* MoveSensor.prev_pick_up
  matrix_value,       \* MoveSensor._matrix._value
  matrix_last_value,  \* MoveSensor._matrix.last_value
  matrix_track,       \* MoveSensor._matrix.track
  ms_fetches,         \* _fetch_value calls of MoveSensor since its last reset
  link,               \* "clean": every line is well formed; "noisy": any line;
                      \* "crowd": well-formed lines of the crowded board
  mon,                \* lift/place events seen on the grids since the board was quiet
  ev,                 \* what the last operation did
  setup,              \* wait_for_setup: "idle", "polling" in its loop, "returned"
  di_value,           \* DigitalInput._value
  di_last_value,      \* DigitalInput.last_value
  di_reversed,        \* DigitalInput.reversed
  connected,          \* Serial.connected
  call,               \* the Serial method called and its arguments
  outcome             \* the effect of that call, Pending before it ran

sensorVars == <<ms_value, ms_last_value, pick_up, prev_pick_up, ms_fetches,
                mon, setup>>
matrixVars == <<matrix_value, matrix_last_value, matrix_track, link>>
inputVars == <<di_value, di_last_value, di_reversed>>

serialVars == <<connected, call, outcome>>

vars == <<sensorVars, matrixVars, inputVars, serialVars, ev>>

\* the fields of a MoveSensor and its matrix as one record
sensor == [value |-> ms_value, last_value |-> ms_last_value,
           pick_up |-> pick_up, prev_pick_up |-> prev_pick_up,
           matrix_value |-> matrix_value,
           matrix_last_value |-> matrix_last_value,
           matrix_track |-> matrix_track]

\* the lines Serial.get_value can return for the matrix port
Delivered == IF link = "clean" THEN CleanLines
             ELSE IF link = "noisy" THEN NoisyLines
             ELSE CrowdedLines

\* matrix_value_get fetching a new line on every access
matrix_value_refetch(mv) ==
  {[value |-> Just(Decoded[val]), fetches |-> 1, bad |-> Malformed[val]]
   : val \in Delivered}

\* CachedValue.value of the matrix whose cache holds mv: the possible
\* (cache afterwards, number of fetches, a malformed line was decoded)
matrix_value_get(mv) ==
  IF mv # None
  THEN {[value |-> mv, fetches |-> 0, bad |-> FALSE]}
  ELSE {[value |-> Just(Decoded[val]), fetches |-> 1, bad |-> Malformed[val]]
        : val \in Delivered}

\* matrix_reset_last storing the cache without materialising it
matrix_reset_untracked(mv, track) ==
  {[value |-> mv, fetches |-> 0, bad |-> FALSE]}

\* CachedValue.reset of the matrix, the part that chooses last_value
matrix_reset_last(mv, track) ==
  IF track THEN matrix_value_get(mv)
  ELSE {[value |-> mv, fetches |-> 0, bad |-> FALSE]}

\* newly returning every square that differs between the two samples
DigitalInputMatrixSet_newly_either(value, last_value) ==
  IF last_value = None THEN None
  ELSE Just((value.v \ last_value.v) \cup (last_value.v \ value.v))

\* DigitalInputMatrixSet.newly with current sample value
DigitalInputMatrixSet_newly(value, last_value) ==
  IF last_value = None THEN None ELSE Just(value.v \ last_value.v)

\* DigitalInputMatrixSet.oldly with current sample value
DigitalInputMatrixSet_oldly(value, last_value) ==
  IF last_value = None THEN None ELSE Just(last_value.v \ value.v)

\* placed without the test for a piece set back on its own square
placed_always_moves(s, sq) ==
  LET set_down == index_to_move(sq)
      res == IF s.prev_pick_up = None
             THEN Just(s.pick_up.v \o set_down)
             ELSE IF s.pick_up.v = set_down
                  THEN Just(s.prev_pick_up.v \o set_down)
                  ELSE None
  IN  [ret |-> res, pick_up |-> None, prev_pick_up |-> None,
       down |-> Just(set_down)]

\* placed emitting a move from the first-lifted square to any other square
placed_any_square(s, sq) ==
  LET set_down == index_to_move(sq)
      res == IF s.prev_pick_up = None
             THEN IF set_down = s.pick_up.v THEN None
                  ELSE Just(s.pick_up.v \o set_down)
             ELSE IF s.prev_pick_up.v # set_down
                  THEN Just(s.prev_pick_up.v \o set_down)
                  ELSE None
  IN  [ret |-> res, pick_up |-> None, prev_pick_up |-> None,
       down |-> Just(set_down)]

\* placed keeping the second lift pending when the first is put back
placed_keeps_second(s, sq) ==
  LET set_down == index_to_move(sq)
      res == IF s.prev_pick_up = None
             THEN IF set_down = s.pick_up.v THEN None
                  ELSE Just(s.pick_up.v \o set_down)
             ELSE IF s.pick_up.v = set_down
                  THEN Just(s.prev_pick_up.v \o set_down)
                  ELSE None
      back == s.prev_pick_up # None /\ s.prev_pick_up.v = set_down
  IN  [ret |-> res, pick_up |-> IF back THEN s.pick_up ELSE None,
       prev_pick_up |-> None, down |-> Just(set_down)]

\* placed leaving the pending lifts as they are
placed_keeps_pending(s, sq) ==
  LET set_down == index_to_move(sq)
      res == IF s.prev_pick_up = None
             THEN IF set_down = s.pick_up.v THEN None
                  ELSE Just(s.pick_up.v \o set_down)
             ELSE IF s.pick_up.v = set_down
                  THEN Just(s.prev_pick_up.v \o set_down)
                  ELSE None
  IN  [ret |-> res, pick_up |-> s.pick_up, prev_pick_up |-> s.prev_pick_up,
       down |-> Just(set_down)]

\* MoveSensor._fetch_value, lines 182-193: the square sq of newly is list(newly)[0]
placed(s, sq) ==
  LET set_down == index_to_move(sq)
      res == IF s.prev_pick_up = None
             THEN IF set_down = s.pick_up.v THEN None
                  ELSE Just(s.pick_up.v \o set_down)
             ELSE IF s.pick_up.v = set_down
                  THEN Just(s.prev_pick_up.v \o set_down)
                  ELSE None
  IN  [ret |-> res, pick_up |-> None, prev_pick_up |-> None,
       down |-> Just(set_down)]

\* MoveSensor._fetch_value: the possible outcomes from the fields s
MoveSensor_fetch_value(s) ==
  IF s.pick_up = None
  THEN {[ret |-> None, pick_up |-> s.pick_up, prev_pick_up |-> s.prev_pick_up,
         down |-> None, matrix_value |-> s.matrix_value, raised |-> FALSE,
         bad |-> FALSE, grids |-> 0]}
  ELSE IF s.matrix_last_value = None
  THEN \* newly() returns None and len(None) raises
       {[ret |-> None, pick_up |-> s.pick_up, prev_pick_up |-> s.prev_pick_up,
         down |-> None, matrix_value |-> s.matrix_value, raised |-> TRUE,
         bad |-> FALSE, grids |-> 0]}
  ELSE UNION {
         LET newly == DigitalInputMatrixSet_newly(m.value, s.matrix_last_value).v
         IN  IF newly = {}
             THEN {[ret |-> None, pick_up |-> s.pick_up,
                    prev_pick_up |-> s.prev_pick_up, down |-> None,
                    matrix_value |-> m.value, raised |-> FALSE, bad |-> m.bad,
                    grids |-> m.fetches]}
             ELSE {[ret |-> placed(s, sq).ret,
                    pick_up |-> placed(s, sq).pick_up,
                    prev_pick_up |-> placed(s, sq).prev_pick_up,
                    down |-> placed(s, sq).down,
                    matrix_value |-> m.value, raised |-> FALSE, bad |-> m.bad,
                    grids |-> m.fetches]
                   : sq \in newly}
         : m \in matrix_value_get(s.matrix_value)}

\* CachedValue.value of the MoveSensor: the possible outcomes from the fields s
MoveSensor_value(s) ==
  IF s.value # None
  THEN {[ret |-> s.value, value |-> s.value, pick_up |-> s.pick_up,
         prev_pick_up |-> s.prev_pick_up, down |-> None,
         matrix_value |-> s.matrix_value, raised |-> FALSE, bad |-> FALSE,
         fetches |-> 0, grids |-> 0]}
  ELSE {[ret |-> f.ret, value |-> f.ret, pick_up |-> f.pick_up,
         prev_pick_up |-> f.prev_pick_up, down |-> f.down,
         matrix_value |-> f.matrix_value, raised |-> f.raised, bad |-> f.bad,
         fetches |-> 1, grids |-> f.grids]
        : f \in MoveSensor_fetch_value(s)}

\* lifted without remembering the earlier lift
lifted_forgets_first(pick, prev, sq) ==
  [prev_pick_up |-> None, pick_up |-> Just(index_to_move(sq))]

\* lifted storing the two squares the other way round
lifted_swapped(pick, prev, sq) ==
  [prev_pick_up |-> Just(index_to_move(sq)), pick_up |-> pick]

\* lifted keeping the first-lifted square when two lifts are pending
lifted_keeps_first(pick, prev, sq) ==
  [prev_pick_up |-> IF prev # None THEN prev ELSE pick,
   pick_up |-> Just(index_to_move(sq))]

\* MoveSensor.reset, lines 202-203: the square sq of oldly is list(oldly)[0]
lifted(pick, prev, sq) ==
  [prev_pick_up |-> pick, pick_up |-> Just(index_to_move(sq))]

\* MoveSensor.reset: the possible outcomes from the fields s
MoveSensor_reset(s) ==
  UNION {
    IF r.raised
    THEN \* self.value raised inside CachedValue.reset: nothing was assigned
         {[value |-> r.value, last_value |-> s.last_value,
           pick_up |-> r.pick_up, prev_pick_up |-> r.prev_pick_up,
           matrix_value |-> r.matrix_value,
           matrix_last_value |-> s.matrix_last_value,
           raised |-> TRUE, bad |-> r.bad, fetches |-> r.fetches,
           grids |-> r.grids,
           pick0 |-> r.pick_up, prev0 |-> r.prev_pick_up, up |-> None,
           committed |-> None, fetched |-> None]}
    ELSE UNION {
      IF m1.value = None
      THEN \* oldly() returns None and len(None) raises
           {[value |-> None, last_value |-> r.ret,
             pick_up |-> r.pick_up, prev_pick_up |-> r.prev_pick_up,
             matrix_value |-> None, matrix_last_value |-> m1.value,
             raised |-> TRUE, bad |-> r.bad, fetches |-> r.fetches,
             grids |-> r.grids + m1.fetches,
             pick0 |-> r.pick_up, prev0 |-> r.prev_pick_up, up |-> None,
             committed |-> None, fetched |-> None]}
      ELSE UNION {
        LET oldly == DigitalInputMatrixSet_oldly(m2.value, m1.value).v
            base == [value |-> None, last_value |-> r.ret,
                     pick_up |-> r.pick_up, prev_pick_up |-> r.prev_pick_up,
                     matrix_value |-> m2.value, matrix_last_value |-> m1.value,
                     raised |-> FALSE, bad |-> (r.bad \/ m1.bad \/ m2.bad),
                     fetches |-> r.fetches,
                     grids |-> r.grids + m1.fetches + m2.fetches,
                     pick0 |-> r.pick_up, prev0 |-> r.prev_pick_up, up |-> None,
                     committed |-> m1.value, fetched |-> m2.value]
        IN  IF oldly = {}
            THEN {base}
            ELSE {[base EXCEPT
                     !.prev_pick_up =
                        lifted(r.pick_up, r.prev_pick_up, sq).prev_pick_up,
                     !.pick_up = lifted(r.pick_up, r.prev_pick_up, sq).pick_up,
                     !.up = Just(index_to_move(sq))]
                  : sq \in oldly}
        : m2 \in matrix_value_get(None)}
      : m1 \in matrix_reset_last(r.matrix_value, s.matrix_track)}
    : r \in MoveSensor_value(s)}

\* MoveSensor._start, line 153
MoveSensor_start ==
  [i \in 0..(Size - 1) |-> [j \in 0..(Size - 1) |-> j \in {0, 1, 6, 7}]]

\* the grid pieces that wait_for_setup builds from the coordinate set value
pieces(value) ==
  [i \in 0..(Size - 1) |-> [j \in 0..(Size - 1) |-> <<i, j>> \in value]]

\* one turn of the loop that also resets the matrix after the matching poll
wait_for_setup_resets_always(s) ==
  UNION {
    {[returned |-> pieces(m.value.v) = MoveSensor_start, polled |-> m.value,
      matrix_value |-> None, matrix_last_value |-> l.value,
      fetches |-> m.fetches, bad |-> m.bad]
     : l \in matrix_reset_last(m.value, s.matrix_track)}
    : m \in matrix_value_get(s.matrix_value)}

\* MoveSensor.wait_for_setup, one turn of its loop from the fields s: the poll
\* of self._matrix.value, the comparison with _start, and either the return
\* or the sleep and self._matrix.reset()
wait_for_setup(s) ==
  UNION {
    IF pieces(m.value.v) = MoveSensor_start
    THEN {[returned |-> TRUE, polled |-> m.value,
           matrix_value |-> m.value, matrix_last_value |-> s.matrix_last_value,
           fetches |-> m.fetches, bad |-> m.bad]}
    ELSE {[returned |-> FALSE, polled |-> m.value,
           matrix_value |-> None, matrix_last_value |-> l.value,
           fetches |-> m.fetches, bad |-> m.bad]
          : l \in matrix_reset_last(m.value, s.matrix_track)}
    : m \in matrix_value_get(s.matrix_value)}

\* ----------------------------------------------------- observed grid events
\* The monitor follows the grid pairs that reset commits and fetches:
\*   "one"    a single square a vanished while the machine was Idle
\*   "two"    after "one", a single square b vanished
\*   "place1" after "one", the current pair shows the single square b appearing
\*   "place2" after "two", the current pair shows exactly b appearing
\* pairs without any change keep "one" and "two"; anything else is "none".
MonNone == [phase |-> "none", a |-> <<>>, b |-> <<>>]

monitor(m, o) ==
  IF o.raised THEN MonNone
  ELSE
  LET V == o.committed.v \ o.fetched.v
      A == o.fetched.v \ o.committed.v
  IN  IF V = {} /\ A = {}
      THEN (IF m.phase \in {"one", "two"} THEN m ELSE MonNone)
      ELSE IF Cardinality(V) = 1 /\ A = {} /\ o.pick0 = None
      THEN [phase |-> "one", a |-> CHOOSE x \in V : TRUE, b |-> <<>>]
      ELSE IF Cardinality(V) = 1 /\ A = {} /\ m.phase = "one"
      THEN [phase |-> "two", a |-> m.a, b |-> CHOOSE x \in V : TRUE]
      ELSE IF V = {} /\ Cardinality(A) = 1 /\ m.phase = "one"
      THEN [phase |-> "place1", a |-> m.a, b |-> CHOOSE x \in A : TRUE]
      ELSE IF V = {} /\ A = {m.b} /\ m.phase = "two"
      THEN [phase |-> "place2", a |-> m.a, b |-> m.b]
      ELSE MonNone

\* ---------------------------------------------------------------- actions
\* ev: op is the operation; pick0/prev0 the pending lifts when it decided
\* (for reset: after the value was materialised); sq the square it consulted
\* (set down in value, picked up in reset); ret what value returned; grids
\* the number of grids the MoveSensor operation fetched from the matrix
NoEvent == [op |-> "init", pick0 |-> None, prev0 |-> None, sq |-> None,
            ret |-> None, fetches |-> 0, raised |-> FALSE, bad |-> FALSE,
            grids |-> 0]

InitSensor ==
  /\ ms_value = None
  /\ ms_last_value = None
  /\ pick_up = None
  /\ prev_pick_up = None
  /\ matrix_value = None
  /\ matrix_last_value = None
  /\ matrix_track = TRUE
  /\ ms_fetches = 0
  /\ mon = MonNone
  /\ ev = NoEvent

\* DigitalInput(serial, port): track is left False
InitInput ==
  /\ di_value = None
  /\ di_last_value = None
  /\ di_reversed = FALSE

\* no Serial call under way
NoCall == [fn |-> "", port |-> [t |-> "none", i |-> 0, b |-> FALSE, s |-> <<>>],
           arg |-> [t |-> "none", i |-> 0, b |-> FALSE, s |-> <<>>]]

Pending == [raised |-> "pending", at |-> "", written |-> <<>>,
            ret |-> [t |-> "none", i |-> 0, b |-> FALSE, s |-> <<>>]]

InitLink ==
  /\ connected = TRUE
  /\ call = NoCall
  /\ outcome = Pending

Init ==
  InitSensor /\ InitInput /\ InitLink /\ link = "clean" /\ setup = "idle"

InitNoisy ==
  InitSensor /\ InitInput /\ InitLink /\ link = "noisy" /\ setup = "idle"

\* an access of MoveSensor.value
MoveSensorValue ==
  \E r \in MoveSensor_value(sensor) :
    /\ ms_value' = r.value
    /\ pick_up' = r.pick_up
    /\ prev_pick_up' = r.prev_pick_up
    /\ matrix_value' = r.matrix_value
    /\ ms_fetches' = Min(ms_fetches + r.fetches, MaxCount)
    /\ ev' = [op |-> "value", pick0 |-> pick_up, prev0 |-> prev_pick_up,
              sq |-> r.down, ret |-> r.ret, fetches |-> r.fetches,
              raised |-> r.raised, bad |-> r.bad, grids |-> r.grids]
    /\ UNCHANGED <<ms_last_value, matrix_last_value, matrix_track, mon, link>>
    /\ UNCHANGED <<setup, inputVars, serialVars>>

\* a call of MoveSensor.reset
MoveSensorReset ==
  \E o \in MoveSensor_reset(sensor) :
    /\ ms_value' = o.value
    /\ ms_last_value' = o.last_value
    /\ pick_up' = o.pick_up
    /\ prev_pick_up' = o.prev_pick_up
    /\ matrix_value' = o.matrix_value
    /\ matrix_last_value' = o.matrix_last_value
    /\ ms_fetches' = IF o.raised THEN Min(ms_fetches + o.fetches, MaxCount)
                     ELSE 0
    /\ mon' = monitor(mon, o)
    /\ ev' = [op |-> "reset", pick0 |-> o.pick0, prev0 |-> o.prev0,
              sq |-> o.up, ret |-> None, fetches |-> o.fetches,
              raised |-> o.raised, bad |-> o.bad, grids |-> o.grids]
    /\ UNCHANGED <<matrix_track, link>>
    /\ UNCHANGED <<setup, inputVars, serialVars>>

Next == MoveSensorValue \/ MoveSensorReset

Spec == Init /\ [][Next]_vars

\* the same machine watching the crowded board
InitCrowd ==
  InitSensor /\ InitInput /\ InitLink /\ link = "crowd" /\ setup = "idle"

CrowdSpec == InitCrowd /\ [][Next]_vars

\* one turn of the loop of MoveSensor.wait_for_setup
WaitForSetup ==
  /\ setup = "polling"
  /\ \E w \in wait_for_setup(sensor) :
       /\ setup' = IF w.returned THEN "returned" ELSE "polling"
       /\ matrix_value' = w.matrix_value
       /\ matrix_last_value' = w.matrix_last_value
       /\ ev' = [NoEvent EXCEPT !.op = "wait_for_setup", !.ret = w.polled,
                                 !.fetches = w.fetches, !.bad = w.bad]
  /\ UNCHANGED <<ms_value, ms_last_value, pick_up, prev_pick_up, ms_fetches,
                 mon, matrix_track, link, inputVars, serialVars>>

\* wait_for_setup was called on the fresh MoveSensor
InitSetup ==
  InitSensor /\ InitInput /\ InitLink /\ link = "clean" /\ setup = "polling"

\* the sensor is read and reset once wait_for_setup has returned
NextSetup == WaitForSetup \/ (setup = "returned" /\ Next)

SetupSpec == InitSetup /\ [][NextSetup]_vars

\* the same machine on a link that may deliver malformed lines
NoisySpec == InitNoisy /\ [][Next]_vars

\* -------------------------------------- cached values used on their own
\* what Serial.get_value hands to DigitalInput: an int, or None when the
\* link is not connected
Readings == {None} \cup {Just(n) : n \in 0..2}

\* DigitalInput._fetch_value on the reading x
DigitalInput_fetch_value(x, rev) == (x = Just(1)) # rev

\* CachedValue.value of the DigitalInput whose cache holds dv
DigitalInput_value(dv, rev) ==
  IF dv # None
  THEN {[value |-> dv, fetches |-> 0]}
  ELSE {[value |-> Just(DigitalInput_fetch_value(x, rev)), fetches |-> 1]
        : x \in Readings}

\* CachedValue.reset of the DigitalInput, the part that chooses last_value
DigitalInput_reset_last(dv, rev, track) ==
  IF track THEN DigitalInput_value(dv, rev)
  ELSE {[value |-> dv, fetches |-> 0]}

\* a DigitalInput, and a DigitalInputMatrixSet built with either track flag
InitCache ==
  /\ InitSensor
  /\ di_value = None
  /\ di_last_value = None
  /\ di_reversed \in BOOLEAN
  /\ matrix_track \in BOOLEAN
  /\ link = "clean"
  /\ setup = "idle"
  /\ InitLink

\* an access of DigitalInput.value
DigitalInputValue ==
  \E r \in DigitalInput_value(di_value, di_reversed) :
    /\ di_value' = r.value
    /\ ev' = [NoEvent EXCEPT !.op = "input.value", !.ret = r.value,
                              !.fetches = r.fetches]
    /\ UNCHANGED <<di_last_value, di_reversed, sensorVars, matrixVars,
                   serialVars>>

\* a call of DigitalInput.reset (CachedValue.reset with track False)
DigitalInputReset ==
  \E r \in DigitalInput_reset_last(di_value, di_reversed, FALSE) :
    /\ di_last_value' = r.value
    /\ di_value' = None
    /\ ev' = [NoEvent EXCEPT !.op = "input.reset", !.ret = r.value,
                              !.fetches = r.fetches]
    /\ UNCHANGED <<di_reversed, sensorVars, matrixVars, serialVars>>

\* an access of DigitalInputMatrixSet.value
MatrixValue ==
  \E r \in matrix_value_get(matrix_value) :
    /\ matrix_value' = r.value
    /\ ev' = [NoEvent EXCEPT !.op = "matrix.value", !.ret = r.value,
                              !.fetches = r.fetches, !.bad = r.bad]
    /\ UNCHANGED <<matrix_last_value, matrix_track, link, sensorVars,
                   inputVars, serialVars>>

\* a call of DigitalInputMatrixSet.reset (CachedValue.reset)
MatrixReset ==
  \E r \in matrix_reset_last(matrix_value, matrix_track) :
    /\ matrix_last_value' = r.value
    /\ matrix_value' = None
    /\ ev' = [NoEvent EXCEPT !.op = "matrix.reset", !.ret = r.value,
                              !.fetches = r.fetches, !.bad = r.bad]
    /\ UNCHANGED <<matrix_track, link, sensorVars, inputVars, serialVars>>

\* a call of DigitalInputMatrixSet.newly: None without a previous sample,
\* otherwise self.value (fetched if the cache is empty) minus last_value
MatrixNewly ==
  /\ IF matrix_last_value = None
     THEN /\ ev' = [NoEvent EXCEPT !.op = "matrix.newly"]
          /\ UNCHANGED matrix_value
     ELSE \E r \in matrix_value_get(matrix_value) :
            /\ matrix_value' = r.value
            /\ ev' = [NoEvent EXCEPT
                        !.op = "matrix.newly",
                        !.ret = DigitalInputMatrixSet_newly(r.value,
                                                            matrix_last_value),
                        !.fetches = r.fetches, !.bad = r.bad]
  /\ UNCHANGED <<matrix_last_value, matrix_track, link, sensorVars,
                 inputVars, serialVars>>

\* a call of DigitalInputMatrixSet.oldly
MatrixOldly ==
  /\ IF matrix_last_value = None
     THEN /\ ev' = [NoEvent EXCEPT !.op = "matrix.oldly"]
          /\ UNCHANGED matrix_value
     ELSE \E r \in matrix_value_get(matrix_value) :
            /\ matrix_value' = r.value
            /\ ev' = [NoEvent EXCEPT
                        !.op = "matrix.oldly",
                        !.ret = DigitalInputMatrixSet_oldly(r.value,
                                                            matrix_last_value),
                        !.fetches = r.fetches, !.bad = r.bad]
  /\ UNCHANGED <<matrix_last_value, matrix_track, link, sensorVars,
                 inputVars, serialVars>>

NextCache ==
  \/ DigitalInputValue \/ DigitalInputReset
  \/ MatrixValue \/ MatrixReset \/ MatrixNewly \/ MatrixOldly

CacheSpec == InitCache /\ [][NextCache]_vars

\* ------------------------------------------------------ serial_protocol.py
\* A Python value with its type: int, bool, str (a sequence of characters)
\* or None.  Only the field named by t is meaningful.
PyInt(n) == [t |-> "int", i |-> n, b |-> FALSE, s |-> <<>>]
PyBool(x) == [t |-> "bool", i |-> 0, b |-> x, s |-> <<>>]
PyStr(x) == [t |-> "str", i |-> 0, b |-> FALSE, s |-> x]
PyNone == [t |-> "none", i |-> 0, b |-> FALSE, s |-> <<>>]

\* isinstance(x, int): bool is a subclass of int
IsInt(x) == x.t \in {"int", "bool"}
IntOf(x) == IF x.t = "bool" THEN (IF x.b THEN 1 ELSE 0) ELSE x.i

\* str(x)
pystr(x) ==
  IF x.t = "str" THEN x.s
  ELSE IF x.t = "none" THEN <<"N", "o", "n", "e">>
  ELSE IF x.t = "bool"
  THEN (IF x.b THEN <<"T", "r", "u", "e">> ELSE <<"F", "a", "l", "s", "e">>)
  ELSE IF x.i < 0 THEN <<"-">> \o str(-x.i) ELSE str(x.i)

Whitespace == {" ", "\n", "\r", "\t"}

\* s.strip()
strip(s) ==
  LET keep == {k \in 1..Len(s) : s[k] \notin Whitespace}
  IN  IF keep = {} THEN <<>>
      ELSE SubSeq(s, CHOOSE k \in keep : \A j \in keep : k <= j,
                     CHOOSE k \in keep : \A j \in keep : k >= j)

DigitValue(c) == CHOOSE d \in 0..9 : DecDigits[d + 1] = c

RECURSIVE DecimalValue(_)
DecimalValue(ds) ==
  IF ds = <<>> THEN 0
  ELSE 10 * DecimalValue(SubSeq(ds, 1, Len(ds) - 1)) + DigitValue(ds[Len(ds)])

\* int(s) for a str s without underscores: ok is FALSE where int raises
python_int(s) ==
  LET body == strip(s)
      signed == body # <<>> /\ Head(body) \in {"+", "-"}
      ds == IF signed THEN Tail(body) ELSE body
      digits == {DecDigits[k] : k \in 1..10}
  IN  IF ds # <<>> /\ \A k \in 1..Len(ds) : ds[k] \in digits
      THEN [ok |-> TRUE,
            n |-> IF signed /\ Head(body) = "-" THEN -DecimalValue(ds)
                  ELSE DecimalValue(ds)]
      ELSE [ok |-> FALSE, n |-> 0]

HexDigits == <<"0", "1", "2", "3", "4", "5", "6", "7", "8", "9",
               "a", "b", "c", "d", "e", "f">>

\* hex(n)[2:] for n >= 0
RECURSIVE hex(_)
hex(n) == IF n < 16 THEN <<HexDigits[n + 1]>>
          ELSE hex(n \div 16) \o <<HexDigits[(n % 16) + 1]>>

\* MODES as (name, wire code) pairs
MODES == { << <<"I", "N", "P", "U", "T">>, <<"I">> >>,
           << <<"O", "U", "T", "P", "U", "T">>, <<"O">> >>,
           << <<"B", "R", "A", "K", "E">>, <<"S">> >>,
           << <<"R", "E", "L", "E", "A", "S", "E">>, <<"R">> >>,
           << <<"F", "O", "R", "W", "A", "R", "D">>, <<"F">> >>,
           << <<"B", "A", "C", "K", "W", "A", "R", "D">>, <<"B">> >> }

ModeKeys == {m[1] : m \in MODES}
ModeCodes == {m[2] : m \in MODES}

\* is_valid_port without the test of the length
is_valid_port_any_length(port) ==
  IF port.t = "str"
  THEN IF Len(port.s) < 2 THEN FALSE
       ELSE IF port.s[1] = "A" THEN port.s[2] \in {"0", "1", "2", "3", "4", "5"}
       ELSE IF port.s[1] = "M" THEN port.s[2] \in {"0", "1", "2", "3"}
       ELSE IF port.s[1] = "S" THEN port.s[2] \in {"0", "1"}
       ELSE python_int(port.s).ok
            /\ 0 <= python_int(port.s).n /\ python_int(port.s).n <= 13
  ELSE IF IsInt(port) THEN 0 <= IntOf(port) /\ IntOf(port) <= 13
  ELSE FALSE

\* is_valid_port (a result of None counts as False)
is_valid_port(port) ==
  IF port.t = "str"
  THEN IF Len(port.s) # 2 THEN FALSE
       ELSE IF port.s[1] = "A" THEN port.s[2] \in {"0", "1", "2", "3", "4", "5"}
       ELSE IF port.s[1] = "M" THEN port.s[2] \in {"0", "1", "2", "3"}
       ELSE IF port.s[1] = "S" THEN port.s[2] \in {"0", "1"}
       ELSE python_int(port.s).ok
            /\ 0 <= python_int(port.s).n /\ python_int(port.s).n <= 13
  ELSE IF IsInt(port) THEN 0 <= IntOf(port) /\ IntOf(port) <= 13
  ELSE FALSE

\* is_valid_value without the range test
is_valid_value_any_int(value) == value.t = "bool" \/ IsInt(value)

is_valid_value(value) ==
  value.t = "bool" \/ (IsInt(value) /\ 0 <= IntOf(value) /\ IntOf(value) < 256)

is_valid_speed(speed) ==
  IsInt(speed) /\ 0 < IntOf(speed) /\ IntOf(speed) < 256

\* check_inputs: the exception it raises, "" when it returns
check_inputs(port, value, mode, speed) ==
  IF ~is_valid_port(port) THEN "ValueError"
  ELSE IF value # PyNone /\ port.t # "str" THEN "TypeError"  \* port[0] of an int
  ELSE IF value # PyNone /\ port.s[1] # "S" /\ ~is_valid_value(value)
  THEN "ValueError"
  ELSE IF mode # PyNone
          /\ ~(mode.t = "str" /\ mode.s \in ModeKeys)
          /\ ~(mode.t = "str" /\ mode.s \in ModeCodes)
  THEN "ValueError"
  ELSE IF speed # PyNone /\ ~is_valid_speed(speed) THEN "ValueError"
  ELSE ""

format_port(port) ==
  IF port.t = "str" THEN port.s
  ELSE (IF IsInt(port) /\ IntOf(port) < 10 THEN <<"0">> ELSE <<>>) \o pystr(port)

\* format_value: err is the exception raised, "" when it returns text
format_value(value) ==
  IF value.t = "bool"
  THEN [err |-> "", text |-> IF value.b THEN <<"H">> ELSE <<"L">>]
  ELSE IF value.t = "int"
  THEN [err |-> "",
        text |-> IF value.i < 0 THEN <<"-">> \o hex(-value.i) ELSE hex(value.i)]
  ELSE [err |-> "TypeError", text |-> <<>>]   \* value < 0 on a str or None

\* format_speed: err is the exception raised, "" when it returns text
format_speed(speed) ==
  IF IsInt(speed)
  THEN [err |-> "",
        text |-> (IF IntOf(speed) < 10 THEN <<"0">> ELSE <<>>) \o pystr(speed)]
  ELSE [err |-> "TypeError", text |-> <<>>]   \* speed < 10 on a str or None

format_mode(mode) ==
  IF mode.s \in ModeKeys
  THEN (CHOOSE m \in MODES : m[1] = mode.s)[2]
  ELSE mode.s

\* the effect of one call: the exception raised ("" if none), whether it was
\* raised before anything was sent ("input") or on the answer ("response"),
\* the byte strings written to the bridge, and the returned value
Effect(raised, at, written, ret) ==
  [raised |-> raised, at |-> at, written |-> written, ret |-> ret]

Returned == Effect("", "", <<>>, PyNone)

\* Serial._write(msg)
write(msg) == Effect("", "", <<msg \o <<"\r">>>>, PyNone)

\* Serial.set_value
Serial_set_value(port, value, conn) ==
  IF check_inputs(port, value, PyNone, PyNone) # ""
  THEN Effect(check_inputs(port, value, PyNone, PyNone), "input", <<>>, PyNone)
  ELSE IF ~conn THEN Returned
  ELSE IF format_value(value).err # ""
  THEN Effect(format_value(value).err, "input", <<>>, PyNone)
  ELSE write(format_port(port) \o <<":">> \o format_value(value).text)

\* port[0] as used by set_speed: the exception raised, "" when it is a character
first_char(port) ==
  IF port.t # "str" THEN [err |-> "TypeError", c |-> ""]
  ELSE IF port.s = <<>> THEN [err |-> "IndexError", c |-> ""]
  ELSE [err |-> "", c |-> port.s[1]]

\* set_speed sending the frame before it looks at the port class
Serial_set_speed_writes_first(port, speed, conn) ==
  IF first_char(port).err # ""
  THEN Effect(first_char(port).err, "input", <<>>, PyNone)
  ELSE IF first_char(port).c = "M" THEN Serial_set_value(port, speed, conn)
  ELSE IF check_inputs(port, PyNone, PyNone, speed) # ""
  THEN Effect(check_inputs(port, PyNone, PyNone, speed), "input", <<>>, PyNone)
  ELSE IF first_char(port).c # "S"
  THEN Effect("ValueError", "input",
              IF conn /\ format_speed(speed).err = ""
              THEN <<format_port(port) \o <<"-">> \o format_speed(speed).text
                     \o <<"\r">>>>
              ELSE <<>>, PyNone)
  ELSE IF ~conn THEN Returned
  ELSE IF format_speed(speed).err # ""
  THEN Effect(format_speed(speed).err, "input", <<>>, PyNone)
  ELSE write(format_port(port) \o <<"-">> \o format_speed(speed).text)

\* Serial.set_speed
Serial_set_speed(port, speed, conn) ==
  IF first_char(port).err # ""
  THEN Effect(first_char(port).err, "input", <<>>, PyNone)
  ELSE IF first_char(port).c = "M" THEN Serial_set_value(port, speed, conn)
  ELSE IF check_inputs(port, PyNone, PyNone, speed) # ""
  THEN Effect(check_inputs(port, PyNone, PyNone, speed), "input", <<>>, PyNone)
  ELSE IF first_char(port).c # "S" THEN Effect("ValueError", "input", <<>>, PyNone)
  ELSE IF ~conn THEN Returned
  ELSE IF format_speed(speed).err # ""
  THEN Effect(format_speed(speed).err, "input", <<>>, PyNone)
  ELSE write(format_port(port) \o <<"-">> \o format_speed(speed).text)

\* Serial.set_mode
Serial_set_mode(port, mode, conn) ==
  IF check_inputs(port, PyNone, mode, PyNone) # ""
  THEN Effect(check_inputs(port, PyNone, mode, PyNone), "input", <<>>, PyNone)
  ELSE IF ~conn THEN Returned
  ELSE IF mode = PyNone
  THEN \* check_inputs skips a mode of None; MODES[None] misses, "-None" is sent
       write(format_port(port) \o <<"-">> \o pystr(mode))
  ELSE write(format_port(port) \o <<"-">> \o format_mode(mode))

\* Serial.get_value, the bridge answering with the line
Serial_get_value(port, line, conn) ==
  IF check_inputs(port, PyNone, PyNone, PyNone) # ""
  THEN Effect(check_inputs(port, PyNone, PyNone, PyNone), "input", <<>>, PyNone)
  ELSE IF ~conn THEN Returned
  ELSE IF ~python_int(line).ok
  THEN Effect("ValueError", "response", <<pystr(port) \o <<"?", "\r">>>>, PyNone)
  ELSE Effect("", "", <<pystr(port) \o <<"?", "\r">>>>,
              PyInt(python_int(line).n))

\* DigitalInputMatrix.__init__, line 98: the effect of its set_mode call
DigitalInputMatrix_init(port, conn) ==
  Serial_set_mode(port, PyStr(<<"M", "A", "T", "R", "I", "X">>), conn)

\* ---------------------------------------------------- calls of the codec
\* first and second characters of the two-character port strings tried
PortFirst == {"A", "M", "S", "X", "0", "1", " ", "-"}
PortSecond == {"0", "1", "2", "3", "4", "5", "6", "A", " "}

Ports ==
  {PyInt(n) : n \in (-1)..MaxPort}
  \cup {PyStr(<<c, d>>) : c \in PortFirst, d \in PortSecond}
  \cup {PyStr(<<>>), PyStr(<<"5">>), PyStr(<<"A">>), PyStr(<<"A", "0", "0">>),
        PyStr(<<"0", "0", "5">>), PyNone, PyBool(TRUE)}

\* integers around every boundary of the validators and formatters
IntArgs == {-17, -1, 0, 1, 9, 10, 15, 16, 17, 99, 100, 128} \cup (250..MaxInt)

Values ==
  {PyInt(n) : n \in IntArgs}
  \cup {PyBool(TRUE), PyBool(FALSE), PyNone, PyStr(<<"H">>)}

ModeArgs ==
  {PyStr(k) : k \in ModeKeys} \cup {PyStr(c) : c \in ModeCodes}
  \cup {PyStr(<<"M", "A", "T", "R", "I", "X">>), PyStr(<<"M">>),
        PyStr(<<"i", "n", "p", "u", "t">>), PyStr(<<>>), PyInt(7), PyNone}

\* lines the bridge may answer to a read
Answers ==
  {PyStr(<<"0", "\n">>), PyStr(<<"1", "\n">>), PyStr(<<"2", "5", "5", "\n">>),
   PyStr(<<"x", "\n">>), PyStr(<<>>), PyStr(Encode(StartLayout, "ok"))}

Calls ==
  {[fn |-> "set_value", port |-> p, arg |-> v] : p \in Ports, v \in Values}
  \cup {[fn |-> "set_speed", port |-> p, arg |-> v] : p \in Ports, v \in Values}
  \cup {[fn |-> "set_mode", port |-> p, arg |-> m] : p \in Ports, m \in ModeArgs}
  \cup {[fn |-> "get_value", port |-> p, arg |-> a] : p \in Ports, a \in Answers}
  \cup {[fn |-> "is_valid_port", port |-> p, arg |-> PyNone] : p \in Ports}
  \cup {[fn |-> "DigitalInputMatrix", port |-> p, arg |-> PyNone] : p \in Ports}

\* one call on a Serial that did or did not connect
InitSerial ==
  /\ InitSensor /\ InitInput /\ link = "clean" /\ setup = "idle"
  /\ connected \in BOOLEAN
  /\ call \in Calls
  /\ outcome = Pending

SetValue ==
  /\ outcome = Pending /\ call.fn = "set_value"
  /\ outcome' = Serial_set_value(call.port, call.arg, connected)
  /\ UNCHANGED <<connected, call, sensorVars, matrixVars, inputVars, ev>>

SetSpeed ==
  /\ outcome = Pending /\ call.fn = "set_speed"
  /\ outcome' = Serial_set_speed(call.port, call.arg, connected)
  /\ UNCHANGED <<connected, call, sensorVars, matrixVars, inputVars, ev>>

SetMode ==
  /\ outcome = Pending /\ call.fn = "set_mode"
  /\ outcome' = Serial_set_mode(call.port, call.arg, connected)
  /\ UNCHANGED <<connected, call, sensorVars, matrixVars, inputVars, ev>>

GetValue ==
  /\ outcome = Pending /\ call.fn = "get_value"
  /\ outcome' = Serial_get_value(call.port, call.arg.s, connected)
  /\ UNCHANGED <<connected, call, sensorVars, matrixVars, inputVars, ev>>

\* a call of the module function is_valid_port
IsValidPort ==
  /\ outcome = Pending /\ call.fn = "is_valid_port"
  /\ outcome' = Effect("", "", <<>>, PyBool(is_valid_port(call.port)))
  /\ UNCHANGED <<connected, call, sensorVars, matrixVars, inputVars, ev>>

\* DigitalInputMatrix(serial, port): the constructor sets the port's mode
MatrixInit ==
  /\ outcome = Pending /\ call.fn = "DigitalInputMatrix"
  /\ outcome' = DigitalInputMatrix_init(call.port, connected)
  /\ UNCHANGED <<connected, call, sensorVars, matrixVars, inputVars, ev>>

NextSerial ==
  SetValue \/ SetSpeed \/ SetMode \/ GetValue \/ IsValidPort \/ MatrixInit

SerialSpec == InitSerial /\ [][NextSerial]_vars

\* ------------------------------------------------------------ properties
\* names of the squares that appeared / vanished in the tracker's grid pair
Names(S) == {index_to_move(x) : x \in S}

newlyNow == IF matrix_value = None \/ matrix_last_value = None THEN {}
            ELSE Names(matrix_value.v \ matrix_last_value.v)

oldlyNow == IF matrix_value = None \/ matrix_last_value = None THEN {}
            ELSE Names(matrix_last_value.v \ matrix_value.v)

Idle == pick_up = None /\ prev_pick_up = None

e2 == <<4, 1>>
e4 == <<4, 3>>
d5 == <<3, 4>>

\* C1: a value access that fetches while exactly one lifted square L is
\* pending and some square appeared in the current grid pair consults one
\* appeared square P, returns no move if P = L and the move L+P otherwise, and
\* leaves the machine Idle; in the event sequence "a vanished while Idle, then
\* b alone appeared" the access returns a+b, or no move when b = a.
OneLiftedPlacement ==
  /\ (ev.op = "value" /\ ev.pick0 # None /\ ev.prev0 = None /\ newlyNow # {})
       => /\ ev.sq # None
          /\ ev.sq.v \in newlyNow
          /\ ev.ret = IF ev.sq.v = ev.pick0.v THEN None
                      ELSE Just(ev.pick0.v \o ev.sq.v)
          /\ Idle
  /\ (ev.op = "value" /\ mon.phase = "place1")
       => /\ ev.ret = IF mon.a = mon.b THEN None
                      ELSE Just(index_to_move(mon.a) \o index_to_move(mon.b))
          /\ Idle

\* start layout, e2 vanished, e4 appeared: value returned e2e4
OneLiftedPlacementWitness ==
  /\ ev.op = "value" /\ ev.fetches = 1
  /\ mon = [phase |-> "place1", a |-> e2, b |-> e4]
  /\ matrix_last_value = Just(StartLayout \ {e2})
  /\ matrix_value = Just((StartLayout \ {e2}) \cup {e4})
  /\ ev.pick0 = Just(<<"e", "2">>)
  /\ ev.ret = Just(<<"e", "2", "e", "4">>)

\* C2: in the event sequence "a vanished while Idle, then b vanished, then b
\* appeared" (single squares, nothing else in between) the value access of
\* the cycle in which b appeared returns the move a+b and the machine is Idle.
CaptureSequence ==
  (ev.op = "value" /\ mon.phase = "place2")
    => /\ mon.a # mon.b
       /\ ev.ret = Just(index_to_move(mon.a) \o index_to_move(mon.b))
       /\ Idle

\* e4 vanished, d5 vanished, d5 appeared: value returned e4d5
CaptureSequenceWitness ==
  /\ ev.op = "value" /\ ev.fetches = 1
  /\ mon = [phase |-> "place2", a |-> e4, b |-> d5]
  /\ ev.pick0 = Just(<<"d", "5">>) /\ ev.prev0 = Just(<<"e", "4">>)
  /\ ev.ret = Just(<<"e", "4", "d", "5">>)
  /\ Idle

\* a value access consulted the appeared square ev.sq with two lifts pending
\* (first-lifted ev.prev0, second-lifted ev.pick0)
TwoLiftedPlaced ==
  /\ ev.op = "value" /\ ev.pick0 # None /\ ev.prev0 # None /\ ev.sq # None
  /\ ev.sq.v \in newlyNow

\* C3 as stated: with first-lifted F and second-lifted S pending, any appeared
\* square P # F yields the move F+P and leaves the machine Idle.
TwoLiftedAnyPlacement ==
  (TwoLiftedPlaced /\ ev.sq.v # ev.prev0.v)
    => (ev.ret = Just(ev.prev0.v \o ev.sq.v) /\ Idle)

\* C3 amended: with F and S pending and P # F appeared, value returns the
\* move F+P when P = S and no move when P # S; the machine is Idle afterwards.
TwoLiftedPlacement ==
  (TwoLiftedPlaced /\ ev.sq.v # ev.prev0.v)
    => /\ ev.ret = IF ev.sq.v = ev.pick0.v THEN Just(ev.prev0.v \o ev.sq.v)
                   ELSE None
       /\ Idle

\* two lifts pending, the piece is set down on a third square: no move
TwoLiftedPlacementWitness ==
  /\ TwoLiftedPlaced
  /\ ev.sq.v # ev.prev0.v /\ ev.sq.v # ev.pick0.v
  /\ ev.ret = None /\ Idle

\* C4 as stated: with F and S pending and F appeared, value returns no move
\* and the machine is OneLifted with S pending.
TwoLiftedPutBackKeepsSecond ==
  (TwoLiftedPlaced /\ ev.sq.v = ev.prev0.v)
    => (ev.ret = None /\ pick_up = ev.pick0 /\ prev_pick_up = None)

\* C4 amended: with F and S pending and F appeared, value returns no move and
\* the machine is Idle (S is no longer pending).
TwoLiftedPutBack ==
  (TwoLiftedPlaced /\ ev.sq.v = ev.prev0.v)
    => (ev.ret = None /\ Idle)

\* two lifts pending, the first-lifted square is occupied again
TwoLiftedPutBackWitness ==
  /\ TwoLiftedPlaced
  /\ ev.sq.v = ev.prev0.v /\ ev.pick0.v # ev.prev0.v
  /\ ev.ret = None /\ Idle

\* C5: when reset sees a square X vanished between the committed and the
\* fetched grid, an Idle machine becomes OneLifted(X) and a OneLifted(L)
\* machine becomes TwoLifted(first L, second X); a grid pair without a
\* vanished square leaves the pending lifts as they were, and a value access
\* on a pair without vanished or appeared square returns no move and changes
\* no pending lift.
LiftTransitions ==
  /\ (ev.op = "reset" /\ ~ev.raised /\ oldlyNow # {})
       => /\ ev.sq # None
          /\ ev.sq.v \in oldlyNow
          /\ pick_up = ev.sq
          /\ (ev.pick0 = None => prev_pick_up = None)
          /\ (ev.pick0 # None /\ ev.prev0 = None => prev_pick_up = ev.pick0)
  /\ (ev.op = "reset" /\ ~ev.raised /\ oldlyNow = {})
       => (ev.sq = None /\ pick_up = ev.pick0 /\ prev_pick_up = ev.prev0)
  /\ (ev.op = "value" /\ oldlyNow = {} /\ newlyNow = {})
       => (ev.ret = None /\ pick_up = ev.pick0 /\ prev_pick_up = ev.prev0)

\* reset saw d5 vanish while e4 was the only pending lift
LiftTransitionsWitness ==
  /\ ev.op = "reset" /\ ~ev.raised
  /\ ev.pick0 = Just(<<"e", "4">>) /\ ev.prev0 = None
  /\ ev.sq = Just(<<"d", "5">>)
  /\ oldlyNow = {<<"d", "5">>}
  /\ pick_up = Just(<<"d", "5">>) /\ prev_pick_up = Just(<<"e", "4">>)

\* C6 as stated: between two resets _fetch_value runs exactly once, however
\* often value is accessed, and every access returns the same sample (also
\* when the sample is "no move").
SingleFetchPerCycle ==
  [][ev'.op = "value"
       => /\ ms_fetches' = 1
          /\ (ev.op = "value" => (ev'.fetches = 0 /\ ev'.ret = ev.ret))]_vars

\* C7: CachedValue.reset with track enabled stores the cycle's sample as
\* last_value, fetching it exactly when the cache was empty; with track
\* disabled it stores the cache as it is (possibly None) and never fetches;
\* either way the cache is empty afterwards and the next access fetches.
ResetCycleBoundary ==
  [][/\ (ev'.op = "matrix.reset" /\ matrix_track)
          => /\ matrix_value' = None
             /\ matrix_last_value' # None
             /\ matrix_last_value' = ev'.ret
             /\ (matrix_value # None
                   => (matrix_last_value' = matrix_value /\ ev'.fetches = 0))
             /\ (matrix_value = None => ev'.fetches = 1)
     /\ (ev'.op = "matrix.reset" /\ ~matrix_track)
          => /\ matrix_value' = None
             /\ matrix_last_value' = matrix_value
             /\ ev'.fetches = 0
     /\ ev'.op = "input.reset"
          => /\ di_value' = None
             /\ di_last_value' = di_value
             /\ ev'.fetches = 0
     /\ (ev.op = "matrix.reset" /\ ev'.op = "matrix.value")
          => (ev'.fetches = 1 /\ matrix_value' # None)
     /\ (ev.op = "input.reset" /\ ev'.op = "input.value")
          => (ev'.fetches = 1 /\ di_value' # None)]_vars

\* a tracking matrix was reset with an empty cache: the reset fetched the
\* sample it stored
ResetCycleBoundaryWitness ==
  /\ ev.op = "matrix.reset" /\ matrix_track /\ ev.fetches = 1
  /\ matrix_last_value = ev.ret /\ matrix_last_value # None
  /\ matrix_value = None

\* C8 as stated: a cycle that decodes a line which is not 8 rows of 8
\* characters raises, emits no move, and leaves the pending lifts unchanged.
MalformedFailsLoudly ==
  [][ev'.bad => /\ ev'.raised
                /\ ev'.ret = None
                /\ pick_up' = pick_up
                /\ prev_pick_up' = prev_pick_up]_vars

\* the call has run
Done == outcome # Pending

\* the call raised before it could send anything: every exception except the
\* one int(line) raises on the answer to a read
InputError == Done /\ outcome.raised # "" /\ outcome.at # "response"

\* C9: a call of set_value, set_mode, set_speed or get_value that raises an
\* input error has written nothing, and a call that writes does so on a
\* connected link, once, a frame ending in a carriage return.
NoBytesOnError ==
  /\ InputError => outcome.written = <<>>
  /\ (Done /\ outcome.written # <<>>)
       => /\ connected
          /\ Len(outcome.written) = 1
          /\ Len(outcome.written[1]) >= 2
          /\ outcome.written[1][Len(outcome.written[1])] = "\r"
          /\ (outcome.raised # "" => (call.fn = "get_value" /\ outcome.at = "response"))

\* set_speed on an analog port with a valid speed raised and wrote nothing
NoBytesOnErrorWitness ==
  /\ Done /\ connected
  /\ call = [fn |-> "set_speed", port |-> PyStr(<<"A", "0">>), arg |-> PyInt(100)]
  /\ outcome.raised = "ValueError" /\ outcome.at = "input"
  /\ outcome.written = <<>>

\* the port address space: pins 0..13 as integers or two digits, A0..A5,
\* M0..M3, S0, S1
AddressSpace ==
  {PyInt(n) : n \in 0..13}
  \cup {PyStr(<<"0", DecDigits[n + 1]>>) : n \in 0..9}
  \cup {PyStr(<<"1", DecDigits[n + 1]>>) : n \in 0..3}
  \cup {PyStr(<<"A", DecDigits[n + 1]>>) : n \in 0..5}
  \cup {PyStr(<<"M", DecDigits[n + 1]>>) : n \in 0..3}
  \cup {PyStr(<<"S", DecDigits[n + 1]>>) : n \in 0..1}

\* a boolean or an integer in [0,256)
ByteOrBool(v) == v.t = "bool" \/ (v.t = "int" /\ 0 <= v.i /\ v.i < 256)

\* set_value ran on a port of the address space
SetValueDone == Done /\ call.fn = "set_value" /\ call.port \in AddressSpace

\* the port is a stepper port
StepperPort == call.port.t = "str" /\ call.port.s[1] = "S"

\* C10 as stated, on a link that is connected: on every valid port set_value
\* writes only a boolean or an integer in [0,256), and for any other value
\* raises and writes nothing.
OnlyValidValuesWritten ==
  (SetValueDone /\ connected)
    => /\ (outcome.written # <<>> => ByteOrBool(call.arg))
       /\ (~ByteOrBool(call.arg) => (outcome.raised # "" /\ outcome.written = <<>>))

\* C10 amended: on a valid numeric, A or M port set_value writes only a
\* boolean or an integer in [0,256); any other value writes nothing and
\* raises, except that None on a link that is not connected returns silently.
\* On a stepper port the value is not validated: on a connected link every
\* boolean or integer is written and anything else raises.
OnlyValidValuesWrittenExceptStepper ==
  /\ (SetValueDone /\ ~StepperPort)
       => /\ (outcome.written # <<>> => ByteOrBool(call.arg))
          /\ (~ByteOrBool(call.arg)
                => /\ outcome.written = <<>>
                   /\ (outcome.raised # "" \/ (call.arg = PyNone /\ ~connected)))
  /\ (SetValueDone /\ StepperPort /\ connected)
       => /\ (IsInt(call.arg) => (outcome.written # <<>> /\ outcome.raised = ""))
          /\ (~IsInt(call.arg) => (outcome.written = <<>> /\ outcome.raised # ""))
  /\ (SetValueDone /\ StepperPort /\ ~connected)
       => (outcome.written = <<>> /\ outcome.raised = "")

\* 256 is refused on A0 without a byte written
OnlyValidValuesWrittenWitness ==
  /\ SetValueDone /\ connected
  /\ call.port = PyStr(<<"A", "0">>) /\ call.arg = PyInt(256)
  /\ outcome.raised = "ValueError" /\ outcome.written = <<>>

\* the port rendered as two characters: a code as it is, a pin number as two
\* decimal digits
PortCode(p) ==
  IF p.t = "str" THEN p.s
  ELSE <<DecDigits[(p.i \div 10) + 1], DecDigits[(p.i % 10) + 1]>>

\* 'H'/'L' for a boolean, the minimal hexadecimal digits for an integer
ValueCode(v) ==
  IF v.t = "bool" THEN (IF v.b THEN <<"H">> ELSE <<"L">>) ELSE hex(v.i)

\* C11 as stated: on a connected link, for every port of the address space
\* (integer or two-character code) and every boolean or integer in [0,256),
\* set_value raises nothing and writes one frame: the two-character port, ':',
\* the value code, and the carriage return.
SetValueEncoding ==
  (SetValueDone /\ connected /\ ByteOrBool(call.arg))
    => /\ outcome.raised = ""
       /\ outcome.written =
            <<PortCode(call.port) \o <<":">> \o ValueCode(call.arg) \o <<"\r">>>>

\* the integers 0..13 (True and False are the integers 1 and 0) and the
\* codes A0..A5, M0..M3, S0, S1
PinsAndCodes ==
  {PyInt(n) : n \in 0..13} \cup {PyBool(TRUE), PyBool(FALSE)}
  \cup {PyStr(<<"A", DecDigits[n + 1]>>) : n \in 0..5}
  \cup {PyStr(<<"M", DecDigits[n + 1]>>) : n \in 0..3}
  \cup {PyStr(<<"S", DecDigits[n + 1]>>) : n \in 0..1}

IsDigit(c) == \E k \in 1..10 : DecDigits[k] = c

\* two-character strings that read as a pin number: two digits up to "13", a
\* digit next to one whitespace character, "+" and a digit, or "-0"
PinText(p) ==
  /\ p.t = "str" /\ Len(p.s) = 2
  /\ \/ p.s[1] = "0" /\ IsDigit(p.s[2])
     \/ p.s[1] = "1" /\ p.s[2] \in {"0", "1", "2", "3"}
     \/ p.s[1] \in Whitespace /\ IsDigit(p.s[2])
     \/ IsDigit(p.s[1]) /\ p.s[2] \in Whitespace
     \/ p.s[1] = "+" /\ IsDigit(p.s[2])
     \/ p.s = <<"-", "0">>

IsValidPortDone == Done /\ call.fn = "is_valid_port"

\* C12 as stated: is_valid_port is true for exactly the integers 0..13 and the
\* codes A0..A5, M0..M3, S0, S1, and false for every other input.
PortValidationExact ==
  IsValidPortDone => (outcome.ret = PyBool(call.port \in PinsAndCodes))

\* C12 amended: is_valid_port is true for exactly the integers 0..13, the
\* codes A0..A5, M0..M3, S0, S1, and the two-character strings that read as a
\* pin number 0..13; it is false for everything else, in particular for the
\* empty string and for strings of one or of three and more characters.
PortValidation ==
  IsValidPortDone
    => /\ outcome.ret = PyBool(call.port \in PinsAndCodes \/ PinText(call.port))
       /\ (call.port.t = "str" /\ Len(call.port.s) # 2
             => outcome.ret = PyBool(FALSE))

\* the three-character string "A00" is refused
PortValidationWitness ==
  /\ IsValidPortDone
  /\ call.port = PyStr(<<"A", "0", "0">>)
  /\ outcome.ret = PyBool(FALSE)

\* the mode names of the protocol and their wire codes
ModeNames ==
  {<<"I", "N", "P", "U", "T">>, <<"O", "U", "T", "P", "U", "T">>,
   <<"B", "R", "A", "K", "E">>, <<"R", "E", "L", "E", "A", "S", "E">>,
   <<"F", "O", "R", "W", "A", "R", "D">>,
   <<"B", "A", "C", "K", "W", "A", "R", "D">>,
   <<"M", "A", "T", "R", "I", "X">>}

ModeWireCodes == {<<"I">>, <<"O">>, <<"S">>, <<"R">>, <<"F">>, <<"B">>, <<"M">>}

KnownMode(m) == m.t = "str" /\ m.s \in ModeNames \cup ModeWireCodes

\* C13 as stated: on a connected link and a port of the address space,
\* set_mode raises nothing and writes a frame for each of the seven mode names
\* and each wire code, and raises for every other mode given; constructing a
\* DigitalInputMatrix on such a port raises nothing.
ModeValidation ==
  /\ (Done /\ call.fn = "set_mode" /\ call.port \in AddressSpace /\ connected)
       => /\ KnownMode(call.arg)
               => (outcome.raised = "" /\ outcome.written # <<>>)
          /\ (~KnownMode(call.arg) /\ call.arg # PyNone) => outcome.raised # ""
  /\ (Done /\ call.fn = "DigitalInputMatrix" /\ call.port \in AddressSpace)
       => outcome.raised = ""

\* the frame is the stepper port, '-', and the speed n as two decimal digits
TwoDigitSpeedFrame(frame, port, n) ==
  \E d1, d2 \in 0..9 :
    /\ 10 * d1 + d2 = n
    /\ frame = port.s \o <<"-", DecDigits[d1 + 1], DecDigits[d2 + 1], "\r">>

SetSpeedDone == Done /\ call.fn = "set_speed" /\ call.port \in AddressSpace

\* C14 as stated: on a connected link set_speed on S0 or S1 with an integer
\* speed in (0,256) writes the port, '-', and exactly two decimal digits; on a
\* port that is neither a DC-motor nor a stepper port it raises and writes
\* nothing.
StepperSpeedFrame ==
  /\ (SetSpeedDone /\ connected /\ StepperPort
        /\ call.arg.t = "int" /\ 0 < call.arg.i /\ call.arg.i < 256)
       => /\ outcome.raised = ""
          /\ Len(outcome.written) = 1
          /\ TwoDigitSpeedFrame(outcome.written[1], call.port, call.arg.i)
  /\ (SetSpeedDone /\ ~StepperPort
        /\ ~(call.port.t = "str" /\ call.port.s[1] = "M"))
       => (outcome.raised # "" /\ outcome.written = <<>>)

\* C15 as stated: on a connected link, for every port of the address space
\* (integer or two-character code), get_value writes one frame: the
\* two-character port followed by '?' and the carriage return.
ReadRequestFrame ==
  (Done /\ call.fn = "get_value" /\ call.port \in AddressSpace /\ connected)
    => outcome.written = <<PortCode(call.port) \o <<"?", "\r">>>>

\* the tracker holds a previous and a current sample
TwoSamples == matrix_last_value # None /\ matrix_value # None

\* C16: with previous sample P and current sample C held by the tracker,
\* newly() returns C \ P and oldly() returns P \ C; what newly() returns is
\* disjoint from what oldly() gives on the same samples, and equals what
\* oldly() gives with P and C exchanged (and the same with the two names
\* exchanged).
PresenceDiff ==
  /\ (ev.op = "matrix.newly" /\ matrix_last_value # None)
       => /\ TwoSamples
          /\ ev.ret = Just(matrix_value.v \ matrix_last_value.v)
          /\ ev.ret.v
               \cap DigitalInputMatrixSet_oldly(matrix_value,
                                                matrix_last_value).v = {}
          /\ ev.ret = DigitalInputMatrixSet_oldly(matrix_last_value,
                                                  matrix_value)
  /\ (ev.op = "matrix.oldly" /\ matrix_last_value # None)
       => /\ TwoSamples
          /\ ev.ret = Just(matrix_last_value.v \ matrix_value.v)
          /\ ev.ret.v
               \cap DigitalInputMatrixSet_newly(matrix_value,
                                                matrix_last_value).v = {}
          /\ ev.ret = DigitalInputMatrixSet_newly(matrix_last_value,
                                                  matrix_value)

\* e2 vanished and e4 appeared between the two samples: newly() returned {e4}
PresenceDiffWitness ==
  /\ ev.op = "matrix.newly"
  /\ matrix_last_value = Just(StartLayout)
  /\ matrix_value = Just((StartLayout \ {e2}) \cup {e4})
  /\ ev.ret = Just({e4})

\* C17: a turn of wait_for_setup returns exactly when the grid it polled is
\* the start layout (every file occupied on rank indexes 0, 1, 6, 7 only), so
\* it returns at the first such poll and never polls again; on return the
\* start layout is still the tracker's current sample and last_value is
\* untouched; a turn that does not return has reset the tracker (the polled
\* grid became last_value, the cache is empty), so the next turn fetches a
\* new grid.
SetupBarrier ==
  [][/\ (setup = "polling" /\ ev'.op = "wait_for_setup")
          => /\ (setup' = "returned") = (ev'.ret = Just(StartLayout))
             /\ setup' = "returned"
                  => /\ matrix_value' = Just(StartLayout)
                     /\ matrix_last_value' = matrix_last_value
             /\ setup' # "returned"
                  => /\ setup' = "polling"
                     /\ matrix_value' = None
                     /\ matrix_last_value' = ev'.ret
     /\ (ev.op = "wait_for_setup" /\ ev'.op = "wait_for_setup")
          => ev'.fetches = 1
     /\ setup = "returned" => (setup' = "returned" /\ ev'.op # "wait_for_setup")
    ]_vars

\* wait_for_setup returned after a poll that did not match: the start layout
\* is cached and the grid of the poll before is last_value
SetupBarrierWitness ==
  /\ setup = "returned" /\ ev.op = "wait_for_setup"
  /\ ev.ret = Just(StartLayout) /\ ev.fetches = 1
  /\ matrix_value = Just(StartLayout)
  /\ matrix_last_value = Just(StartLayout \ {e2})

\* number of lifts pending now, and when the last operation decided
Pending2(a, b) == (IF a # None THEN 1 ELSE 0) + (IF b # None THEN 1 ELSE 0)
PendingNames == {x.v : x \in {pick_up, prev_pick_up} \ {None}}

\* what a placement on the square named p returns with the lifts pick (last)
\* and prev (first) pending
PlacementResult(pick, prev, p) ==
  IF prev = None THEN (IF p = pick.v THEN None ELSE Just(pick.v \o p))
  ELSE IF p = pick.v THEN Just(prev.v \o p)
  ELSE None

\* the part of C18 that does not count: reset and value consult one square
\* of their own grid pair's vanished / appeared set and nothing else of it
OneSquareConsulted ==
  /\ (ev.op = "reset" /\ ~ev.raised /\ ev.sq # None) => ev.sq.v \in oldlyNow
  /\ (ev.op = "value" /\ ev.sq # None) => ev.sq.v \in newlyNow
  /\ (ev.op = "reset" /\ ~ev.raised /\ Cardinality(oldlyNow) >= 2)
       => /\ ev.sq # None
          /\ pick_up = ev.sq
          /\ prev_pick_up = ev.pick0
          /\ PendingNames \cap (oldlyNow \ {ev.sq.v}) = {}
  /\ (ev.op = "value" /\ ev.fetches = 1 /\ ev.pick0 # None
        /\ Cardinality(newlyNow) >= 2)
       => /\ ev.sq # None
          /\ ev.ret = PlacementResult(ev.pick0, ev.prev0, ev.sq.v)
          /\ Idle

\* C18 as stated: when two or more squares vanish in one grid pair, reset
\* records one of them and the number of pending lifts grows by exactly one;
\* when two or more appear, value treats one of them as the placed square;
\* the other squares of the diff are not consulted.
MultiSquareGrowsByOne ==
  /\ OneSquareConsulted
  /\ (ev.op = "reset" /\ ~ev.raised /\ Cardinality(oldlyNow) >= 2)
       => Pending2(pick_up, prev_pick_up) = Pending2(ev.pick0, ev.prev0) + 1

\* C18 amended: as above, but the number of pending lifts grows by one only
\* up to two: with two lifts already pending the first-lifted square is
\* dropped, the second-lifted becomes the first and the recorded square the
\* second, and the number stays two.
MultiSquareCycles ==
  /\ OneSquareConsulted
  /\ (ev.op = "reset" /\ ~ev.raised /\ Cardinality(oldlyNow) >= 2)
       => /\ Pending2(pick_up, prev_pick_up)
               = Min(Pending2(ev.pick0, ev.prev0) + 1, 2)
          /\ (ev.prev0 # None => ev.prev0.v \notin PendingNames)

\* two squares vanished together while two lifts were pending
MultiSquareCyclesWitness ==
  /\ ev.op = "reset" /\ ~ev.raised
  /\ ev.pick0 # None /\ ev.prev0 # None
  /\ Cardinality(oldlyNow) = 2
  /\ pick_up = ev.sq /\ prev_pick_up = ev.pick0

\* a move names two different squares
ProperMove(m) == Len(m) = 4 /\ SubSeq(m, 1, 2) # SubSeq(m, 3, 4)

\* C19: in every state reached by value accesses and resets, prev_pick_up is
\* set only if pick_up is set, the two are different squares when both are
\* set, and every move value returned (or holds in its cache) has an origin
\* different from its destination.
PendingWellFormed ==
  /\ prev_pick_up # None => pick_up # None
  /\ (pick_up # None /\ prev_pick_up # None) => pick_up.v # prev_pick_up.v
  /\ (ev.op = "value" /\ ev.ret # None) => ProperMove(ev.ret.v)
  /\ ms_value # None => ProperMove(ms_value.v)

\* two lifts are pending after a value access in a cycle without placement
PendingWellFormedWitness ==
  /\ ev.op = "value" /\ ev.fetches = 1 /\ ev.sq = None /\ ev.ret = None
  /\ pick_up = Just(<<"d", "5">>) /\ prev_pick_up = Just(<<"e", "4">>)

\* C20: a reset that does not raise commits the grid the tracker held (or,
\* the first time, one it fetches) as last_value and fetches the next grid in
\* the same call: two grids in the first reset, exactly one in every later
\* one; the square it records vanished between these two grids.  A value
\* access fetches no grid and leaves the pair alone, so the square it
\* consults appeared between the same two grids.  Hence, when reset found the
\* machine Idle and the pair shows just A vanished and just B appeared, the
\* value access that follows returns the move A to B.
SameGridPair ==
  [][/\ (ev'.op = "reset" /\ ~ev'.raised)
          => /\ matrix_last_value' # None /\ matrix_value' # None
             /\ matrix_value # None => matrix_last_value' = matrix_value
             /\ ev'.grids = IF matrix_last_value = None THEN 2 ELSE 1
             /\ ev'.sq # None
                  => ev'.sq.v \in Names(matrix_last_value'.v \ matrix_value'.v)
     /\ ev'.op = "value"
          => /\ ev'.grids = 0
             /\ matrix_value' = matrix_value
             /\ matrix_last_value' = matrix_last_value
             /\ ev'.sq # None
                  => ev'.sq.v \in Names(matrix_value.v \ matrix_last_value.v)
     /\ (ev.op = "reset" /\ ~ev.raised /\ ev.pick0 = None /\ ev'.op = "value"
           /\ Cardinality(oldlyNow) = 1 /\ Cardinality(newlyNow) = 1)
          => \E a \in oldlyNow : \E b \in newlyNow :
               /\ pick_up = Just(a)
               /\ ev'.ret = Just(a \o b)
    ]_vars

\* one grid transition moved the piece from e2 to e4: the value access after
\* the reset returned e2e4
SameGridPairWitness ==
  /\ ev.op = "value" /\ ev.fetches = 1
  /\ matrix_last_value = Just(StartLayout)
  /\ matrix_value = Just((StartLayout \ {e2}) \cup {e4})
  /\ ev.pick0 = Just(<<"e", "2">>) /\ ev.prev0 = None
  /\ ev.ret = Just(<<"e", "2", "e", "4">>)

====
